---- MODULE Spec2Model ----
(***************************************************************************)
(* Model of the .ftt -> GEDCOM conversion pipeline of gedcom_tools:        *)
(*   parse_node_ftt -> to_json (build_indexes, remove_empty_strings)       *)
(*   -> json_to_gedcom, driven by convert.                                 *)
(*                                                                         *)
(* Strings.  A Python str is modelled by the list of its space-free words, *)
(* i.e. by s.split(" "): "" is <<"">>, "3 MAY 1900" is <<"3","MAY","1900">>*)
(* and " //" is <<"", "//">>.  With this encoding a + " " + b is a \o b,   *)
(* s.split(" ", 1) is (<<Head(s)>>, Tail(s)) and s.strip() drops the empty *)
(* words at both ends.  None, where a str is optional, is <<>>, which      *)
(* encodes no string.                                                      *)
(*                                                                         *)
(* Optional[int] is a record [some, v]; dicts are sequences of entries in  *)
(* insertion order.                                                        *)
(***************************************************************************)
EXTENDS Integers, Sequences, FiniteSets, TLC

VARIABLES
  pc,             \* position of the driver (convert, or a direct call)
  text,           \* the record file: its non-blank lines, each a list of cells
  now,            \* the clock reading that to_json took last
  people_by_id,   \* parse result: ordered dict of Person_FTT
  couples_by_id,  \* parse result: ordered dict of Couple_FTT
  DOCUMENT,       \* the nested document to_json returned
  gedcom,         \* the lines json_to_gedcom returned
  runs,           \* number of conversions started on this text
  prev_gedcom,    \* output of the previous conversion of the same text
  written,        \* the files convert has written: "json", "ged"
  arg,            \* argument of a direct call of a utility function
  ret,            \* its result
  ret2            \* result of calling it again on its own result

vars == <<pc, text, now, people_by_id, couples_by_id, DOCUMENT, gedcom,
          runs, prev_gedcom, written, arg, ret, ret2>>

-----------------------------------------------------------------------------
(* Bounds *)

MaxLines == 3       \* record lines (people and couples) of a record file
MaxRuns == 2        \* conversions of one record file
MaxNum == 13        \* small integers that cells may spell (0..MaxNum)
MaxNodes == 4       \* nodes of the documents given to the utilities directly

-----------------------------------------------------------------------------
(* Strings and optional values *)

EMPTY == <<"">>                 \* the empty string ""
NoStr == <<>>                   \* None where a str is expected
None == [some |-> FALSE, v |-> 0]
Some(n) == [some |-> TRUE, v |-> n]

\* bool(x) of an Optional[int]
Truthy(o) == o.some /\ o.v # 0

RECURSIVE LStrip(_)
LStrip(s) ==
  IF Len(s) > 1 /\ Head(s) = "" THEN LStrip(Tail(s)) ELSE s

RECURSIVE RStrip(_)
RStrip(s) ==
  IF Len(s) > 1 /\ s[Len(s)] = "" THEN RStrip(SubSeq(s, 1, Len(s) - 1)) ELSE s

\* str.strip() (blanks are the only whitespace of the alphabet)
Strip(s) == RStrip(LStrip(s))

\* x or None, for a str x
OrNone(s) == IF s = EMPTY THEN NoStr ELSE s

\* the f-string rendering of an int
Fmt(n) == <<ToString(n)>>

-----------------------------------------------------------------------------
(* utils.py *)

DeathKnown == 128

\* the integers that the cells of the model spell
Numbers == (-2..MaxNum) \cup {DeathKnown, 1900}

\* int(x): leading and trailing blanks are ignored, the rest is decimal
IntOf(x) ==
  LET s == Strip(x) IN
  IF Len(s) = 1 /\ \E n \in Numbers : ToString(n) = s[1]
    THEN Some(CHOOSE n \in Numbers : ToString(n) = s[1])
    ELSE None

\* _to_int(x, _None_is_0, _0_is_None) (never called with both flags)
to_int(x, None_is_0, Zero_is_None) ==
  LET value == IntOf(x) IN
  IF ~value.some THEN (IF None_is_0 THEN Some(0) ELSE None)
  ELSE IF Zero_is_None /\ value.v = 0 THEN None
  ELSE value

GED_MONTHS ==
  <<"Jan", "Feb", "Mar", "Apr", "May", "Jun",
    "Jul", "Aug", "Sep", "Oct", "Nov", "Dec">>

fmt_ged_date(y, m, d) ==
  IF ~y.some THEN NoStr
  ELSE IF ~m.some THEN Fmt(y.v)
  ELSE IF ~(1 <= m.v /\ m.v <= 12) THEN Fmt(y.v)
  ELSE IF ~d.some THEN <<GED_MONTHS[m.v]>> \o Fmt(y.v)
  ELSE Fmt(d.v) \o <<GED_MONTHS[m.v]>> \o Fmt(y.v)

sex_to_ged(sex_code) ==
  IF sex_code = 1 THEN <<"M">> ELSE IF sex_code = 2 THEN <<"F">> ELSE <<"U">>

-----------------------------------------------------------------------------
(* Nested documents: dicts (entries in insertion order), lists, str values *)

Str(s) == [t |-> "str", s |-> s, kv |-> <<>>]
Entry(k, v) == [k |-> k, v |-> v]
Dict(entries) == [t |-> "dict", s |-> <<>>, kv |-> entries]
\* a list holds its elements as entries without a key
List(elems) ==
  [t |-> "list", s |-> <<>>, kv |-> [i \in DOMAIN elems |-> Entry("", elems[i])]]

\* d[k] = v on a dict: replaces in place, or appends
DictSet(d, k, v) ==
  IF \E i \in DOMAIN d.kv : d.kv[i].k = k
    THEN Dict([i \in DOMAIN d.kv |-> IF d.kv[i].k = k THEN Entry(k, v) ELSE d.kv[i]])
    ELSE Dict(Append(d.kv, Entry(k, v)))

DictGet(d, k) == d.kv[CHOOSE i \in DOMAIN d.kv : d.kv[i].k = k].v

\* Faulty variant of remove_empty_strings: a dict loses only the first of
\* its empty-string entries (the deletion loop stops after one key).
RECURSIVE remove_first_empty_string(_)
remove_first_empty_string(obj) ==
  IF obj.t = "dict" THEN
    LET empty == {i \in DOMAIN obj.kv : obj.kv[i].v = Str(EMPTY)}
        first == IF empty = {} THEN 0
                 ELSE CHOOSE i \in empty : \A j \in empty : i <= j
        kept == [i \in 1..(Len(obj.kv) - (IF first = 0 THEN 0 ELSE 1)) |->
                   IF first = 0 \/ i < first THEN obj.kv[i] ELSE obj.kv[i + 1]]
    IN Dict([i \in DOMAIN kept |->
               IF kept[i].v = Str(EMPTY) THEN kept[i]
               ELSE Entry(kept[i].k, remove_first_empty_string(kept[i].v))])
  ELSE IF obj.t = "list" THEN
    [obj EXCEPT !.kv = [i \in DOMAIN obj.kv |->
                          Entry("", remove_first_empty_string(obj.kv[i].v))]]
  ELSE obj

RECURSIVE remove_empty_strings(_)
remove_empty_strings(obj) ==
  IF obj.t = "dict" THEN
    LET kept == SelectSeq(obj.kv, LAMBDA e : e.v # Str(EMPTY)) IN
    Dict([i \in DOMAIN kept |-> Entry(kept[i].k, remove_empty_strings(kept[i].v))])
  ELSE IF obj.t = "list" THEN
    [obj EXCEPT !.kv = [i \in DOMAIN obj.kv |->
                          Entry("", remove_empty_strings(obj.kv[i].v))]]
  ELSE obj

-----------------------------------------------------------------------------
(* json_to_gedcom.  The state of a walk is the list of lines emitted so far *)
(* and the exception raised, if any ("" for none).                         *)

PSEUDO_DEF == "_PDEF"
PSEUDO_REF == {"_PREF", "_NAME"}

Emit(st, line) == [st EXCEPT !.lines = Append(st.lines, line)]

\* Faulty variant of Patch: the value is put in front of the level.
PatchFront(st, value, def_) ==
  IF st.lines = <<>> THEN [st EXCEPT !.err = "IndexError"]
  ELSE LET n == Len(st.lines)
           last == st.lines[n]
       IN IF Len(last) < 2 THEN [st EXCEPT !.err = "ValueError"]
          ELSE [st EXCEPT !.lines[n] = value.s \o last]

\* Faulty variant of Patch: the value of _PDEF is appended after the tag,
\* as that of _PREF is.
PatchAppend(st, value, def_) ==
  IF st.lines = <<>> THEN [st EXCEPT !.err = "IndexError"]
  ELSE LET n == Len(st.lines)
           last == st.lines[n]
       IN IF Len(last) < 2 THEN [st EXCEPT !.err = "ValueError"]
          ELSE [st EXCEPT !.lines[n] = <<Head(last)>> \o Tail(last) \o value.s]

\* prev_level_str, prev_tag = lines[-1].split(" ", 1), then the patch of
\* lines[-1]; def_ is TRUE for _PDEF
Patch(st, value, def_) ==
  IF st.lines = <<>> THEN [st EXCEPT !.err = "IndexError"]
  ELSE LET n == Len(st.lines)
           last == st.lines[n]
       IN IF Len(last) < 2 THEN [st EXCEPT !.err = "ValueError"]
          ELSE LET prev_level_str == <<Head(last)>>
                   prev_tag == Tail(last)
               IN [st EXCEPT !.lines[n] =
                     IF def_ THEN prev_level_str \o value.s \o prev_tag
                             ELSE prev_level_str \o prev_tag \o value.s]

RECURSIVE walk(_, _, _)
RECURSIVE WalkItems(_, _, _, _)
RECURSIVE WalkList(_, _, _, _, _)

\* one iteration of "for tag, value in items"
WalkItem(tag, value, level, st) ==
  IF tag = PSEUDO_DEF THEN Patch(st, value, TRUE)
  ELSE IF tag \in PSEUDO_REF THEN Patch(st, value, FALSE)
  ELSE IF value.t = "dict" THEN
    walk(value, level + 1, Emit(st, Fmt(level) \o <<tag>>))
  ELSE IF value.t = "list" THEN WalkList(value.kv, 1, tag, level, st)
  ELSE Emit(st, Fmt(level) \o <<tag>> \o value.s)

WalkItems(items, i, level, st) ==
  IF st.err # "" \/ i > Len(items) THEN st
  ELSE WalkItems(items, i + 1, level,
                 WalkItem(items[i].k, items[i].v, level, st))

\* Faulty variant of WalkList: the tag line is emitted once for the whole
\* list (one block with repeated children) instead of once per dict entry.
RECURSIVE WalkListOnce(_, _, _, _, _)
WalkListOnce(elems, i, tag, level, st) ==
  IF st.err # "" \/ i > Len(elems) THEN st
  ELSE LET item == elems[i].v
           st1 == IF i = 1 THEN Emit(st, Fmt(level) \o <<tag>>) ELSE st
       IN
       WalkListOnce(elems, i + 1, tag, level,
                    IF item.t = "dict"
                      THEN walk(item, level + 1, st1)
                      ELSE Emit(st, Fmt(level) \o <<tag>> \o item.s))

\* "for item in value" of case A2
WalkList(elems, i, tag, level, st) ==
  IF st.err # "" \/ i > Len(elems) THEN st
  ELSE LET item == elems[i].v IN
       WalkList(elems, i + 1, tag, level,
                IF item.t = "dict"
                  THEN walk(item, level + 1, Emit(st, Fmt(level) \o <<tag>>))
                  ELSE Emit(st, Fmt(level) \o <<tag>> \o item.s))

walk(node, level, st) ==
  IF node.t = "dict" THEN WalkItems(node.kv, 1, level, st) ELSE st

\* Faulty variant of JoinLines: "\n".join(lines), no newline after the last
\* line.
JoinLinesBare(lines) == IF lines = <<>> THEN <<EMPTY>> ELSE lines

\* "\n".join(lines) + "\n", as the list of its "\n"-separated pieces
JoinLines(lines) == (IF lines = <<>> THEN <<EMPTY>> ELSE lines) \o <<EMPTY>>

\* [err, lines, text]: text is the returned str when err = ""
json_to_gedcom(data) ==
  LET st == walk(data, 0, [lines |-> <<>>, err |-> ""]) IN
  [err |-> st.err, lines |-> st.lines,
   text |-> IF st.err = "" THEN JoinLines(st.lines) ELSE <<>>]

-----------------------------------------------------------------------------
(* parse_node_ftt.  A line is the list of its tab-separated cells.  Of a   *)
(* record only the fields that to_json or build_indexes read, and the note *)
(* placeholders, are kept; the opaque numeric slots are read by nothing.   *)

\* ln.strip() is empty: every cell is blank (a tab is whitespace)
Blank(ln) == \A i \in DOMAIN ln : Strip(ln[i]) = EMPTY

\* seq[i] with Python's indexing (i counted from 0, negative from the end)
InRange(seq, i) == -Len(seq) <= i /\ i < Len(seq)
At(seq, i) == IF i >= 0 THEN seq[i + 1] ELSE seq[Len(seq) + i + 1]

\* parts += [fill] * (n - len(parts))
Pad(parts, n, fill) ==
  IF Len(parts) < n THEN parts \o [i \in 1..(n - Len(parts)) |-> fill] ELSE parts

\* Faulty variant of Store: d.setdefault(rec.id, rec), a known key keeps its
\* record.
StoreFirst(d, rec) ==
  IF \E i \in DOMAIN d : d[i].id = rec.id THEN d ELSE Append(d, rec)

\* d[rec.id] = rec on a dict of records: a known key keeps its position
Store(d, rec) ==
  IF \E i \in DOMAIN d : d[i].id = rec.id
    THEN [i \in DOMAIN d |-> IF d[i].id = rec.id THEN rec ELSE d[i]]
    ELSE Append(d, rec)

Keys(d) == {d[i].id : i \in DOMAIN d}
Lookup(d, k) == d[CHOOSE i \in DOMAIN d : d[i].id = k]

Person_FTT(parts) ==
  [id               |-> to_int(parts[1], TRUE, FALSE).v,
   parent_couple_id |-> to_int(parts[3], FALSE, FALSE),
   surname          |-> Strip(parts[13]),
   name             |-> Strip(parts[14]),
   birth_event      |-> to_int(parts[17], TRUE, FALSE).v,
   birth_year       |-> to_int(parts[18], FALSE, TRUE),
   birth_month      |-> to_int(parts[19], FALSE, TRUE),
   birth_day        |-> to_int(parts[20], FALSE, TRUE),
   death_event      |-> to_int(parts[21], TRUE, FALSE).v,
   death_year       |-> to_int(parts[22], FALSE, TRUE),
   death_month      |-> to_int(parts[23], FALSE, TRUE),
   death_day        |-> to_int(parts[24], FALSE, TRUE),
   sex              |-> to_int(parts[25], TRUE, FALSE).v,
   addition         |-> OrNone(Strip(parts[26])),
   tab_unk3         |-> parts[27],
   tab_unk4         |-> parts[28],
   note             |-> OrNone(Strip(parts[29]))]

Couple_FTT(parts) ==
  [id        |-> to_int(parts[1], TRUE, FALSE).v,
   divorce   |-> to_int(parts[2], TRUE, FALSE).v,
   male_id   |-> to_int(parts[3], FALSE, FALSE),
   female_id |-> to_int(parts[5], FALSE, FALSE)]

\* Faulty variant of ParsePeople: the loop ends at the last line there is
\* (lines[1 : 1 + n_people] taken as a slice).
RECURSIVE ParsePeopleAvailable(_, _, _, _)
ParsePeopleAvailable(lines, i, stop, acc) ==
  IF i >= stop \/ ~InRange(lines, i) THEN [err |-> "", d |-> acc]
  ELSE ParsePeopleAvailable(lines, i + 1, stop,
                            Store(acc, Person_FTT(Pad(At(lines, i), 29, EMPTY))))

\* for i in range(i, stop): people_by_id[person.id] = person
RECURSIVE ParsePeople(_, _, _, _)
ParsePeople(lines, i, stop, acc) ==
  IF i >= stop THEN [err |-> "", d |-> acc]
  ELSE IF ~InRange(lines, i) THEN [err |-> "IndexError", d |-> acc]
  ELSE ParsePeople(lines, i + 1, stop,
                   Store(acc, Person_FTT(Pad(At(lines, i), 29, EMPTY))))

RECURSIVE ParseCouples(_, _, _, _)
ParseCouples(lines, i, stop, acc) ==
  IF i >= stop THEN [err |-> "", d |-> acc]
  ELSE IF ~InRange(lines, i) THEN [err |-> "IndexError", d |-> acc]
  ELSE ParseCouples(lines, i + 1, stop,
                    Store(acc, Couple_FTT(Pad(At(lines, i), 12, <<"0">>))))

\* [err, people, couples]: the two dicts are returned when err = ""
parse_node_ftt(txt) ==
  LET lines == SelectSeq(txt, LAMBDA ln : ~Blank(ln))
      Raise(e) == [err |-> e, people |-> <<>>, couples |-> <<>>]
  IN
  IF lines = <<>> THEN [err |-> "", people |-> <<>>, couples |-> <<>>]
  ELSE
    LET hdr_parts == lines[1]
        n_people == IntOf(hdr_parts[1])
    IN
    IF ~n_people.some THEN Raise("ValueError")
    ELSE IF Len(hdr_parts) < 2 THEN Raise("IndexError")
    ELSE
      LET n_couples == IntOf(hdr_parts[2]) IN
      IF ~n_couples.some THEN Raise("ValueError")
      ELSE
        LET start_person == 1
            people == ParsePeople(lines, start_person,
                                  start_person + n_people.v, <<>>)
        IN
        IF people.err # "" THEN Raise(people.err)
        ELSE
          LET start_couples == 1 + n_people.v
              couples == ParseCouples(lines, start_couples,
                                      start_couples + n_couples.v, <<>>)
          IN
          IF couples.err # "" THEN Raise(couples.err)
          ELSE [err |-> "", people |-> people.d, couples |-> couples.d]

-----------------------------------------------------------------------------
(* build_indexes *)

\* the ids of the people, in dict order, whose parent couple is couple_id
ChildrenOf(people, couples, couple_id) ==
  LET kids == SelectSeq(people, LAMBDA p :
                  /\ Truthy(p.parent_couple_id)
                  /\ p.parent_couple_id.v \in Keys(couples)
                  /\ p.parent_couple_id.v = couple_id)
  IN [i \in DOMAIN kids |-> kids[i].id]

\* Faulty variant of CouplesOf: only the male participant is indexed.
RECURSIVE CouplesOfMale(_, _, _)
CouplesOfMale(people, couples, person_id) ==
  IF couples = <<>> THEN <<>>
  ELSE LET c == Head(couples)
           Hit(ref) == Truthy(ref) /\ ref.v \in Keys(people) /\ ref.v = person_id
       IN (IF Hit(c.male_id) THEN <<c.id>> ELSE <<>>)
          \o CouplesOfMale(people, Tail(couples), person_id)

\* the ids of the couples, in dict order, naming person_id: once as male_id
\* and once as female_id
RECURSIVE CouplesOf(_, _, _)
CouplesOf(people, couples, person_id) ==
  IF couples = <<>> THEN <<>>
  ELSE LET c == Head(couples)
           Hit(ref) == Truthy(ref) /\ ref.v \in Keys(people) /\ ref.v = person_id
       IN (IF Hit(c.male_id) THEN <<c.id>> ELSE <<>>)
          \o (IF Hit(c.female_id) THEN <<c.id>> ELSE <<>>)
          \o CouplesOf(people, Tail(couples), person_id)

build_indexes(people, couples) ==
  [children_of_couple |->
     [couple_id \in Keys(couples) |-> ChildrenOf(people, couples, couple_id)],
   couples_of_person |->
     [person_id \in Keys(people) |-> CouplesOf(people, couples, person_id)]]

-----------------------------------------------------------------------------
(* to_json *)

\* Faulty variant of Sorted: descending order (sorted(..., reverse=True)).
RECURSIVE SortedDescending(_)
SortedDescending(ids) ==
  IF ids = {} THEN <<>>
  ELSE LET m == CHOOSE x \in ids : \A y \in ids : x >= y
       IN <<m>> \o SortedDescending(ids \ {m})

\* sorted(ids)
RECURSIVE Sorted(_)
Sorted(ids) ==
  IF ids = {} THEN <<>>
  ELSE LET m == CHOOSE x \in ids : \A y \in ids : x <= y
       IN <<m>> \o Sorted(ids \ {m})

\* f"{idx:04d}"
Pad4(idx) ==
  LET digits == ToString(idx) IN
  IF idx < 10 THEN "000" \o digits
  ELSE IF idx < 100 THEN "00" \o digits
  ELSE IF idx < 1000 THEN "0" \o digits
  ELSE digits

\* f"@{letter}{idx:04d}@"
Pointer(letter, idx) == <<"@" \o letter \o Pad4(idx) \o "@">>

\* {id: f"@{letter}{idx:04d}@" for idx, id in enumerate(ids)}
Pointers(letter, ids) ==
  [k \in {ids[i] : i \in DOMAIN ids} |->
     Pointer(letter, (CHOOSE i \in DOMAIN ids : ids[i] = k) - 1)]

\* f"/{surname}/"
Slashed(surname) ==
  LET n == Len(surname) IN
  IF n = 1 THEN <<"/" \o surname[1] \o "/">>
  ELSE <<"/" \o surname[1]>> \o SubSeq(surname, 2, n - 1) \o <<surname[n] \o "/">>

\* Faulty variant of HeadBlock: the generation date also stamps the version
\* of the source program.
HeadBlockStamped(lang, clk) ==
  Dict(<<
    Entry("GEDC", Dict(<<Entry("VERS", Str(<<"5.5.1">>)),
                         Entry("FORM", Str(<<"LINEAGE-LINKED">>))>>)),
    Entry("CHAR", Str(<<"UTF-8">>)),
    Entry("SOUR", Dict(<<Entry("_NAME", Str(<<"GT">>)),
                         Entry("NAME", Str(<<"Gedcom", "Tools">>)),
                         Entry("VERS", Str(clk.date))>>)),
    Entry("DATE", Dict(<<Entry("_NAME", Str(clk.date)),
                         Entry("TIME", Str(clk.time))>>)),
    Entry("LANG", Str(lang)),
    Entry("SUBM", Str(<<"@U1@">>))>>)

HeadBlock(lang, clk) ==
  Dict(<<
    Entry("GEDC", Dict(<<Entry("VERS", Str(<<"5.5.1">>)),
                         Entry("FORM", Str(<<"LINEAGE-LINKED">>))>>)),
    Entry("CHAR", Str(<<"UTF-8">>)),
    Entry("SOUR", Dict(<<Entry("_NAME", Str(<<"GT">>)),
                         Entry("NAME", Str(<<"Gedcom", "Tools">>)),
                         Entry("VERS", Str(<<"__version__">>))>>)),
    Entry("DATE", Dict(<<Entry("_NAME", Str(clk.date)),
                         Entry("TIME", Str(clk.time))>>)),
    Entry("LANG", Str(lang)),
    Entry("SUBM", Str(<<"@U1@">>))>>)

\* Faulty variant of SubmBlock: the submitter record is given another
\* pointer than the one the header refers to.
SubmBlockRenamed ==
  Dict(<<Entry("_PDEF", Str(<<"@SUBM1@">>)), Entry("NAME", Str(<<"Tester">>))>>)

SubmBlock ==
  Dict(<<Entry("_PDEF", Str(<<"@U1@">>)), Entry("NAME", Str(<<"Tester">>))>>)

\* bool(s) of an Optional[str]
NonEmpty(s) == s # NoStr /\ s # EMPTY

\* Faulty variant of HasBirth: the birth marker is not looked at.
HasBirthUnmarked(p, bdate) == NonEmpty(bdate)

\* "if p.birth_event and bdate"
HasBirth(p, bdate) == p.birth_event # 0 /\ NonEmpty(bdate)

\* Faulty variant of HasDeath: the marker 128 is not looked at.
HasDeathDated(p, ddate) == p.death_event # 0 /\ NonEmpty(ddate)

\* "if p.death_event and (ddate or p.death_event == 128)"
HasDeath(p, ddate) ==
  p.death_event # 0 /\ (NonEmpty(ddate) \/ p.death_event = DeathKnown)

\* the node of one person
IndiNode(p, fam_ptr, couples_of_person, indi_ptr) ==
  LET node0 ==
        Dict(<<Entry("_PDEF", Str(indi_ptr[p.id])),
               Entry("NAME", Dict(<<Entry("_NAME", Str(p.name \o Slashed(p.surname))),
                                    Entry("GIVN", Str(p.name)),
                                    Entry("SURN", Str(p.surname))>>)),
               Entry("SEX", Str(sex_to_ged(p.sex))),
               Entry("FAMC", List(<<>>)),
               Entry("FAMS", List(<<>>))>>)
      bdate == fmt_ged_date(p.birth_year, p.birth_month, p.birth_day)
      node1 == IF HasBirth(p, bdate)
                 THEN DictSet(node0, "BIRT", Dict(<<Entry("DATE", Str(bdate))>>))
                 ELSE node0
      ddate == fmt_ged_date(p.death_year, p.death_month, p.death_day)
      node2 == IF HasDeath(p, ddate)
                 THEN DictSet(node1, "DEAT",
                              IF NonEmpty(ddate) THEN Dict(<<Entry("DATE", Str(ddate))>>)
                                         ELSE Str(<<"Y">>))
                 ELSE node1
      node3 == IF Truthy(p.parent_couple_id)
                  /\ p.parent_couple_id.v \in DOMAIN fam_ptr
                 THEN DictSet(node2, "FAMC",
                        List(<<Dict(<<Entry("_PREF", Str(fam_ptr[p.parent_couple_id.v])),
                                      Entry("PEDI", Str(<<"BIRTH">>))>>)>>))
                 ELSE node2
      spouse == IF p.id \in DOMAIN couples_of_person
                  THEN couples_of_person[p.id] ELSE <<>>
      node4 == DictSet(node3, "FAMS",
                 List([i \in DOMAIN spouse |->
                         Dict(<<Entry("_PREF", Str(fam_ptr[spouse[i]]))>>)]))
      note_text == IF NonEmpty(p.note) THEN p.note ELSE p.addition
  IN IF NonEmpty(note_text)
       THEN DictSet(node4, "NOTE", Str(note_text))
       ELSE node4

\* Faulty variant of FamNode: a participant is not looked up before it is
\* referenced (indi_ptr.get with the first pointer as default).
FamNodeUnchecked(c, fam_ptr, children_of_couple, indi_ptr) ==
  LET Get(k) == IF k \in DOMAIN indi_ptr THEN indi_ptr[k] ELSE Pointer("I", 0)
      node0 == Dict(<<Entry("_PDEF", Str(fam_ptr[c.id]))>>)
      node1 == IF Truthy(c.male_id)
                 THEN DictSet(node0, "HUSB", Str(Get(c.male_id.v)))
                 ELSE node0
      node2 == IF Truthy(c.female_id)
                 THEN DictSet(node1, "WIFE", Str(Get(c.female_id.v)))
                 ELSE node1
      kids == IF c.id \in DOMAIN children_of_couple
                THEN children_of_couple[c.id] ELSE <<>>
      node3 == IF kids # <<>>
                 THEN DictSet(node2, "CHIL",
                              List([i \in DOMAIN kids |-> Str(indi_ptr[kids[i]])]))
                 ELSE node2
  IN IF c.divorce = 1 THEN DictSet(node3, "DIV", Str(<<"Y">>)) ELSE node3

\* the node of one couple
FamNode(c, fam_ptr, children_of_couple, indi_ptr) ==
  LET node0 == Dict(<<Entry("_PDEF", Str(fam_ptr[c.id]))>>)
      node1 == IF Truthy(c.male_id) /\ c.male_id.v \in DOMAIN indi_ptr
                 THEN DictSet(node0, "HUSB", Str(indi_ptr[c.male_id.v]))
                 ELSE node0
      node2 == IF Truthy(c.female_id) /\ c.female_id.v \in DOMAIN indi_ptr
                 THEN DictSet(node1, "WIFE", Str(indi_ptr[c.female_id.v]))
                 ELSE node1
      kids == IF c.id \in DOMAIN children_of_couple
                THEN children_of_couple[c.id] ELSE <<>>
      node3 == IF kids # <<>>
                 THEN DictSet(node2, "CHIL",
                              List([i \in DOMAIN kids |-> Str(indi_ptr[kids[i]])]))
                 ELSE node2
  IN IF c.divorce = 1 THEN DictSet(node3, "DIV", Str(<<"Y">>)) ELSE node3

\* to_json(people_by_id, couples_by_id, lang), reading the clock as clk
to_json(people, couples, lang, clk) ==
  LET person_ids == Sorted(Keys(people))
      couple_ids == Sorted(Keys(couples))
      indi_ptr == Pointers("I", person_ids)
      fam_ptr == Pointers("F", couple_ids)
      idx == build_indexes(people, couples)
      doc == Dict(<<
        Entry("HEAD", HeadBlock(lang, clk)),
        Entry("SUBM", SubmBlock),
        Entry("INDI", List([i \in DOMAIN person_ids |->
                 IndiNode(Lookup(people, person_ids[i]), fam_ptr,
                          idx.couples_of_person, indi_ptr)])),
        Entry("FAM", List([i \in DOMAIN couple_ids |->
                 FamNode(Lookup(couples, couple_ids[i]), fam_ptr,
                         idx.children_of_couple, indi_ptr)])),
        Entry("TRLR", Dict(<<>>))>>)
  IN remove_empty_strings(doc)

-----------------------------------------------------------------------------
(* Record files *)

Cell(n) == <<ToString(n)>>

\* a person line of 29 cells; f gives the cells that matter, by column
PersonLine(f) ==
  [i \in 1..29 |-> IF (i - 1) \in DOMAIN f THEN f[i - 1] ELSE <<"0">>]

\* a couple line of 12 cells
CoupleLine(id, divorce, male, female) ==
  <<id, divorce, male, <<"0">>, female, <<"0">>, <<"0">>, <<"0">>,
    <<"0">>, <<"0">>, <<"0">>, <<"0">>>>

Header(n_people, n_couples) == <<Cell(n_people), Cell(n_couples), <<"0">>>>

\* the text cells of a person without events, given name or note
PlainCells ==
  (12 :> <<"Doe">>) @@ (13 :> EMPTY) @@ (24 :> <<"2">>)
  @@ (25 :> EMPTY) @@ (26 :> EMPTY) @@ (27 :> EMPTY) @@ (28 :> EMPTY)

\* families: people 1..3 whose parent couple is 0 (none) or 1; couples 1..2
\* (couple 2 divorced) whose (male, female) cells are one of Roles.  A
\* reference dangles when the record file has no line for its target.
Roles == {<<0, 3>>, <<1, 0>>, <<1, 1>>, <<2, 3>>}

FamilyPeople ==
  {PersonLine((0 :> Cell(id)) @@ (2 :> Cell(par)) @@ PlainCells) :
     id \in 1..3, par \in 0..1}

FamilyCouples ==
  {CoupleLine(Cell(id), Cell(id - 1), Cell(r[1]), Cell(r[2])) :
     id \in 1..2, r \in Roles}

FamilyTexts ==
  UNION {UNION {{<<Header(np, nc)>> \o ps \o cs :
                   ps \in [1..np -> FamilyPeople],
                   cs \in [1..nc -> FamilyCouples]} :
                nc \in 0..(MaxLines - np)} :
         np \in 0..MaxLines}

\* one person with every combination of the event and date cells
EventTexts ==
  {<<Header(1, 0),
     PersonLine((0 :> <<"1">>) @@ (16 :> Cell(be)) @@ (17 :> by) @@ (18 :> Cell(bm))
                @@ (19 :> Cell(bd)) @@ (20 :> Cell(de)) @@ (21 :> dy)
                @@ (22 :> Cell(dm)) @@ (23 :> Cell(dd)) @@ PlainCells)>> :
     be \in {0, 1}, by \in {<<"x">>, <<"1900">>}, bm \in {0, 5}, bd \in {0, 3},
     de \in {0, 1, DeathKnown}, dy \in {<<"0">>, <<"1900">>},
     dm \in {0, 5, MaxNum}, dd \in {0, 3}}

\* one person with every combination of the text cells
NameTexts ==
  {<<Header(1, 0),
     PersonLine((0 :> <<"1">>) @@ (12 :> sur) @@ (13 :> nam) @@ (24 :> Cell(sex))
                @@ (25 :> add) @@ (26 :> c26) @@ (28 :> c28))>> :
     sur \in {EMPTY, <<"Doe">>, <<"van", "Doe">>},
     nam \in {EMPTY, <<"", "Ann">>, <<"Ann", "B">>},
     sex \in 0..3,
     add \in {EMPTY, <<"added">>}, c26 \in {EMPTY, <<"c26">>},
     c28 \in {EMPTY, <<"a", "note">>}}

Texts == FamilyTexts \cup EventTexts \cup NameTexts

\* the readings of the clock, in the order of time:
\* strftime("%d %b %Y").upper(), strftime("%H:%M:%S")
Clock ==
  <<[date |-> <<"02", "NOV", "2026">>, time |-> <<"23:59:59">>],
    [date |-> <<"03", "NOV", "2026">>, time |-> <<"00:00:00">>]>>
NoClock == [date |-> <<>>, time |-> <<>>]

\* the readings that can follow reading c: the clock does not run backwards
NotBefore(c) == {i \in DOMAIN Clock : \A j \in DOMAIN Clock : Clock[j] = c => j <= i}

-----------------------------------------------------------------------------
(* convert: parse_node_ftt, to_json, the .json file, json_to_gedcom, the   *)
(* GEDCOM file.  An exception leaves convert (pc = "raised").              *)

NoCall == arg = <<>> /\ ret = <<>> /\ ret2 = <<>>

Init ==
  /\ pc = "start"
  /\ text \in Texts
  /\ now = NoClock
  /\ people_by_id = <<>>
  /\ couples_by_id = <<>>
  /\ DOCUMENT = Dict(<<>>)
  /\ gedcom = <<>>
  /\ runs = 1
  /\ prev_gedcom = <<>>
  /\ written = {}
  /\ NoCall

\* Faulty variant of Parse: the .json file is opened for writing around the
\* whole of the work, before the record file is parsed.
ParseAfterOpen ==
  /\ pc = "start"
  /\ LET r == parse_node_ftt(text) IN
     /\ pc' = IF r.err = "" THEN "parsed" ELSE "raised"
     /\ people_by_id' = r.people
     /\ couples_by_id' = r.couples
  /\ written' = written \cup {"json"}
  /\ UNCHANGED <<text, now, DOCUMENT, gedcom, runs, prev_gedcom, arg, ret, ret2>>

Parse ==
  /\ pc = "start"
  /\ LET r == parse_node_ftt(text) IN
     /\ pc' = IF r.err = "" THEN "parsed" ELSE "raised"
     /\ people_by_id' = r.people
     /\ couples_by_id' = r.couples
  /\ UNCHANGED <<text, now, DOCUMENT, gedcom, runs, prev_gedcom, written,
                 arg, ret, ret2>>

ToJson ==
  /\ pc = "parsed"
  /\ \E i \in NotBefore(now) :
       /\ now' = Clock[i]
       /\ DOCUMENT' = to_json(people_by_id, couples_by_id, <<"English">>, Clock[i])
  /\ written' = written \cup {"json"}
  /\ pc' = "built"
  /\ UNCHANGED <<text, people_by_id, couples_by_id, gedcom, runs, prev_gedcom,
                 arg, ret, ret2>>

JsonToGedcom ==
  /\ pc = "built"
  /\ LET r == json_to_gedcom(DOCUMENT) IN
     /\ pc' = IF r.err = "" THEN "done" ELSE "raised"
     /\ gedcom' = r.text
     /\ written' = IF r.err = "" THEN written \cup {"ged"} ELSE written
  /\ UNCHANGED <<text, now, people_by_id, couples_by_id, DOCUMENT, runs,
                 prev_gedcom, arg, ret, ret2>>

\* convert is called again on the same record file
Rerun ==
  /\ pc = "done"
  /\ runs < MaxRuns
  /\ runs' = runs + 1
  /\ prev_gedcom' = gedcom
  /\ pc' = "start"
  /\ people_by_id' = <<>>
  /\ couples_by_id' = <<>>
  /\ DOCUMENT' = Dict(<<>>)
  /\ gedcom' = <<>>
  /\ UNCHANGED <<text, now, written, arg, ret, ret2>>

Next == Parse \/ ToJson \/ JsonToGedcom \/ Rerun

Spec == Init /\ [][Next]_vars

-----------------------------------------------------------------------------
(* Direct calls of the utilities, on arguments drawn from bounded sets *)

NoRun ==
  /\ text = <<>> /\ now = NoClock /\ people_by_id = <<>> /\ couples_by_id = <<>>
  /\ DOCUMENT = Dict(<<>>) /\ gedcom = <<>> /\ runs = 0 /\ prev_gedcom = <<>>
  /\ written = {}

RunVars == <<text, now, people_by_id, couples_by_id, DOCUMENT, gedcom, runs,
             prev_gedcom, written>>

\* fmt_ged_date(y, m, d)
OptNumbers(S) == {None} \cup {Some(n) : n \in S}

InitDate ==
  /\ pc = "call"
  /\ arg \in [y : OptNumbers({1900}), m : OptNumbers(0..MaxNum),
               d : OptNumbers({1, 3})]
  /\ ret = <<>> /\ ret2 = <<>>
  /\ NoRun

CallFmtGedDate ==
  /\ pc = "call"
  /\ ret' = fmt_ged_date(arg.y, arg.m, arg.d)
  /\ pc' = "returned"
  /\ UNCHANGED <<arg, ret2>>
  /\ UNCHANGED RunVars

NextDate == CallFmtGedDate

SpecDate == InitDate /\ [][NextDate]_vars

\* the documents of n nodes: values "" and "v", dicts keyed by DocKeys, lists
Scalars == {Str(EMPTY), Str(<<"v">>)}
DocKeys == {"A", "_PDEF", "_PREF"}

\* the lists of k distinct keys
KeySeqs(k) ==
  {ks \in [1..k -> DocKeys] : \A i, j \in 1..k : i # j => ks[i] # ks[j]}

RECURSIVE DocsOfSize(_)
RECURSIVE Forests(_)

\* the lists of documents of n nodes in all
Forests(n) ==
  IF n = 0 THEN {<<>>}
  ELSE UNION {{<<d>> \o f : d \in DocsOfSize(j), f \in Forests(n - j)} :
              j \in 1..n}

DocsOfSize(n) ==
  IF n = 1 THEN Scalars \cup {Dict(<<>>), List(<<>>)}
  ELSE {List(f) : f \in Forests(n - 1)}
       \cup UNION {{Dict([i \in DOMAIN f |-> Entry(ks[i], f[i])]) :
                      ks \in KeySeqs(Len(f))} :
                   f \in {g \in Forests(n - 1) : Len(g) <= Cardinality(DocKeys)}}

\* the individual of the pointer-patch scenario, and a header with _NAME
ExampleDocs ==
  {Dict(<<Entry("INDI", List(<<
       Dict(<<Entry("_PDEF", Str(<<"@I0000@">>)),
              Entry("SEX", Str(<<"M">>)),
              Entry("FAMC", List(<<Dict(<<Entry("_PREF", Str(<<"@F0002@">>)),
                                         Entry("PEDI", Str(<<"BIRTH">>))>>)>>))>>)>>))>>),
   Dict(<<Entry("HEAD", Dict(<<
       Entry("SOUR", Dict(<<Entry("_NAME", Str(<<"GT">>)),
                            Entry("NAME", Str(<<"Gedcom", "Tools">>))>>)),
       Entry("SUBM", Str(<<"@U1@">>))>>))>>)}

Docs == UNION {DocsOfSize(n) : n \in 1..MaxNodes} \cup ExampleDocs

\* remove_empty_strings(d), then remove_empty_strings of the result
InitPrune ==
  /\ pc = "call"
  /\ arg \in Docs
  /\ ret = <<>> /\ ret2 = <<>>
  /\ NoRun

CallRemoveEmptyStrings ==
  /\ pc = "call"
  /\ ret' = remove_empty_strings(arg)
  /\ pc' = "returned"
  /\ UNCHANGED <<arg, ret2>>
  /\ UNCHANGED RunVars

CallRemoveEmptyStringsAgain ==
  /\ pc = "returned"
  /\ ret2' = remove_empty_strings(ret)
  /\ pc' = "returned2"
  /\ UNCHANGED <<arg, ret>>
  /\ UNCHANGED RunVars

NextPrune == CallRemoveEmptyStrings \/ CallRemoveEmptyStringsAgain

SpecPrune == InitPrune /\ [][NextPrune]_vars

\* the documents whose every rendered value is a str: a pseudo-tag holds a
\* str, and so does a list element that is not a dict
RECURSIVE Renderable(_)
Renderable(node) ==
  \A i \in DOMAIN node.kv :
    LET e == node.kv[i] IN
    /\ (e.k = PSEUDO_DEF \/ e.k \in PSEUDO_REF) => e.v.t = "str"
    /\ node.t = "list" => e.v.t \in {"str", "dict"}
    /\ Renderable(e.v)

\* json_to_gedcom(data)
InitWalk ==
  /\ pc = "call"
  /\ arg \in {d \in Docs : Renderable(d)}
  /\ ret = <<>> /\ ret2 = <<>>
  /\ NoRun

CallJsonToGedcom ==
  /\ pc = "call"
  /\ ret' = json_to_gedcom(arg)
  /\ pc' = "returned"
  /\ UNCHANGED <<arg, ret2>>
  /\ UNCHANGED RunVars

NextWalk == CallJsonToGedcom

SpecWalk == InitWalk /\ [][NextWalk]_vars

-----------------------------------------------------------------------------
(* Record files as parse_node_ftt may meet them: no lines or blank lines   *)
(* only, headers that spell no counts, fewer or more record lines than the *)
(* header declares, short lines, identifier cells that spell 0 or nothing, *)
(* the text cells after the sex cell, and repeated identifiers.            *)

\* the cells of a header
HeaderCells == {<<"x">>, EMPTY, <<"0">>, <<"1">>, <<"", "1">>}

\* a line that reads both as the line of person n and as that of couple n
RecordLine(n) == PersonLine((0 :> Cell(n)) @@ PlainCells)

BlankLines == {<<EMPTY>>, <<EMPTY, <<"", "">>>>}

EmptyTexts ==
  {<<>>} \cup {<<b>> : b \in BlankLines} \cup {<<b, c>> : b, c \in BlankLines}

\* every header of one or two cells, before no line or a record line
HeaderTexts ==
  {<<h>> \o body :
     h \in {<<c1>> : c1 \in HeaderCells}
           \cup {<<c1, c2>> : c1, c2 \in HeaderCells},
     body \in {<<>>, <<RecordLine(1)>>}}

\* declared counts against the lines there are, blank lines in between
CountTexts ==
  UNION {{<<Header(np, nc)>> \o [i \in 1..k |-> RecordLine(i)],
          <<<<EMPTY>>, Header(np, nc)>>
            \o [i \in 1..k |-> IF i = 2 THEN <<EMPTY>> ELSE RecordLine(i)]} :
         np \in 0..2, nc \in 0..2, k \in 0..MaxLines}

\* the cells of an identifier: 0, nothing, no number, 1, 2
IdCells == {<<"0">>, EMPTY, <<"x">>, <<"1">>, <<"2">>}

\* one person and one couple with every identifier and reference cell, on
\* full lines and on lines that end after the cell
CellTexts ==
  {<<Header(1, 1),
     PersonLine((0 :> id) @@ (2 :> par) @@ PlainCells),
     CoupleLine(<<"1">>, <<"0">>, <<"1">>, <<"2">>)>> :
     id \in IdCells, par \in IdCells}
  \cup
  {<<Header(1, 1), RecordLine(1), CoupleLine(id, <<"0">>, male, female)>> :
     id \in IdCells, male \in IdCells, female \in IdCells}
  \cup
  {<<Header(1, 1), <<id>>, <<id>>>> : id \in IdCells}
  \cup
  {<<Header(1, 1), <<id, <<"0">>, par>>, <<id, <<"0">>, par, <<"0">>, par>>>> :
     id \in IdCells, par \in IdCells}

\* one person with every combination of the four cells after the sex cell
NoteTexts ==
  {<<Header(1, 0),
     PersonLine((0 :> <<"1">>) @@ (12 :> <<"Doe">>) @@ (13 :> <<"Ann">>)
                @@ (24 :> <<"1">>) @@ (25 :> c25) @@ (26 :> c26)
                @@ (27 :> c27) @@ (28 :> c28))>> :
     c25 \in {EMPTY, <<"add">>}, c26 \in {EMPTY, <<"", "c26", "">>},
     c27 \in {EMPTY, <<"", "c27">>}, c28 \in {EMPTY, <<"c28", "">>}}

\* the i-th line of a file, carrying identifier id: as a person line its
\* surname, sex and parent couple, as a couple line its divorce flag and
\* male participant, tell the lines of one identifier apart
NumberedLine(id, i) ==
  PersonLine((0 :> Cell(id)) @@ (1 :> Cell(i)) @@ (2 :> Cell(i))
             @@ (12 :> <<"Doe", ToString(i)>>) @@ (13 :> EMPTY)
             @@ (24 :> Cell(i)) @@ (25 :> EMPTY) @@ (26 :> EMPTY)
             @@ (27 :> EMPTY) @@ (28 :> EMPTY))

\* people and couples whose identifiers are drawn from 1..2
RepeatTexts ==
  UNION {{<<Header(np, n - np)>> \o [i \in 1..n |-> NumberedLine(ids[i], i)] :
            ids \in [1..n -> 1..2]} :
         <<np, n>> \in {<<a, b>> \in (0..MaxLines) \X (1..MaxLines) : a <= b}}

\* families in which 0 occurs as an identifier and as a reference: people
\* 0 and 1 whose parent couple is 0 or 1, couples 0 and 1 whose (male,
\* female) cells are one of ZeroRoles; person 2 is never there
ZeroRoles == {<<0, 0>>, <<0, 1>>, <<1, 1>>, <<1, 2>>}

ZeroPeople ==
  {PersonLine((0 :> Cell(id)) @@ (2 :> Cell(par)) @@ PlainCells) :
     id \in 0..1, par \in 0..1}

ZeroCouples ==
  {CoupleLine(Cell(id), <<"0">>, Cell(r[1]), Cell(r[2])) :
     id \in 0..1, r \in ZeroRoles}

ZeroTexts ==
  UNION {UNION {{<<Header(np, nc)>> \o ps \o cs :
                   ps \in [1..np -> ZeroPeople],
                   cs \in [1..nc -> ZeroCouples]} :
                nc \in 1..(MaxLines - np)} :
         np \in 1..(MaxLines - 1)}

\* headers whose counts may be negative, before up to two record lines
SignedTexts ==
  {<<Header(np, nc)>> \o [i \in 1..k |-> NumberedLine(i, i)] :
     np \in -2..1, nc \in -1..2, k \in 0..2}

RawTexts ==
  EmptyTexts \cup HeaderTexts \cup CountTexts \cup CellTexts \cup NoteTexts
  \cup RepeatTexts \cup ZeroTexts \cup SignedTexts

\* parse_node_ftt(text)
InitParse ==
  /\ pc = "call"
  /\ arg \in RawTexts
  /\ ret = <<>> /\ ret2 = <<>>
  /\ NoRun

CallParseNodeFtt ==
  /\ pc = "call"
  /\ ret' = parse_node_ftt(arg)
  /\ pc' = "returned"
  /\ UNCHANGED <<arg, ret2>>
  /\ UNCHANGED RunVars

NextParse == CallParseNodeFtt

SpecParse == InitParse /\ [][NextParse]_vars

\* convert on any of these record files
InitConvert ==
  /\ pc = "start"
  /\ text \in RawTexts
  /\ now = NoClock
  /\ people_by_id = <<>>
  /\ couples_by_id = <<>>
  /\ DOCUMENT = Dict(<<>>)
  /\ gedcom = <<>>
  /\ runs = 1
  /\ prev_gedcom = <<>>
  /\ written = {}
  /\ NoCall

SpecConvert == InitConvert /\ [][Next]_vars

-----------------------------------------------------------------------------
(* Reading the GEDCOM text *)

\* the lines of the text: every piece but the empty one after the last "\n"
OutLines == IF gedcom = <<>> THEN <<>> ELSE SubSeq(gedcom, 1, Len(gedcom) - 1)

\* the level-0 lines of the records tagged tag, in output order
RecordHeads(tag) ==
  SelectSeq(OutLines, LAMBDA l : Len(l) >= 2 /\ l[1] = "0" /\ l[Len(l)] = tag)

\* the lines of the record whose level-0 line is head (those up to the next
\* level-0 line); no lines when there is no such record
RecordBody(head) ==
  LET at == {i \in DOMAIN OutLines : OutLines[i] = head} IN
  IF at = {} THEN <<>>
  ELSE LET i == CHOOSE x \in at : \A y \in at : x <= y
           later == {j \in (i + 1)..Len(OutLines) : OutLines[j][1] = "0"}
           stop == IF later = {} THEN Len(OutLines) + 1
                   ELSE CHOOSE x \in later : \A y \in later : x <= y
       IN SubSeq(OutLines, i + 1, stop - 1)

\* the values of the level-1 lines tagged tag among body, in order
Refs(body, tag) ==
  LET sel == SelectSeq(body, LAMBDA l : Len(l) >= 2 /\ l[1] = "1" /\ l[2] = tag)
  IN [i \in DOMAIN sel |-> SubSeq(sel[i], 3, Len(sel[i]))]

Range(seq) == {seq[i] : i \in DOMAIN seq}

\* the pointer of the identifier id among ids: its rank, counted from 0, in
\* four digits (the model has fewer than ten records of a kind)
Rank(id, ids) == Cardinality({j \in ids : j < id})
PtrOf(letter, id, ids) == <<"@" \o letter \o "000" \o ToString(Rank(id, ids)) \o "@">>

IndiHead(id) == <<"0">> \o PtrOf("I", id, Keys(people_by_id)) \o <<"INDI">>
FamHead(id) == <<"0">> \o PtrOf("F", id, Keys(couples_by_id)) \o <<"FAM">>

-----------------------------------------------------------------------------
(* C1: once the conversion of an accepted record file is done, the output  *)
(* has exactly one level-0 INDI record per parsed person and one level-0   *)
(* FAM record per parsed couple, and so has the pruned document.           *)

C1_RecordCounts ==
  pc = "done" =>
    /\ Len(RecordHeads("INDI")) = Len(people_by_id)
    /\ Len(RecordHeads("FAM")) = Len(couples_by_id)
    /\ Len(DictGet(DOCUMENT, "INDI").kv) = Len(people_by_id)
    /\ Len(DictGet(DOCUMENT, "FAM").kv) = Len(couples_by_id)

\* two people, one of them with a pruned (empty) given name, and a couple
C1_Witness ==
  /\ pc = "done"
  /\ Len(people_by_id) = 2
  /\ Len(couples_by_id) = 1
  /\ \E i \in DOMAIN people_by_id : people_by_id[i].name = EMPTY

-----------------------------------------------------------------------------
(* C2: in a finished conversion the k-th smallest person identifier (k     *)
(* from 0) owns the pointer @I<k in four digits>@ and the k-th smallest    *)
(* couple identifier @F<k>@: the records appear under these pointers in     *)
(* ascending order, no pointer is used by two records, and the FAMC, FAMS, *)
(* HUSB, WIFE and CHIL lines of a record carry exactly the pointers of the *)
(* identifiers that the parsed record refers to.                           *)

\* the couples naming person id as male or female participant
SpouseCouples(id) ==
  {c \in Range(couples_by_id) :
     \/ (Truthy(c.male_id) /\ c.male_id.v = id)
     \/ (Truthy(c.female_id) /\ c.female_id.v = id)}

\* the people whose parent couple is couple id
Children(id) ==
  {q \in Range(people_by_id) :
     Truthy(q.parent_couple_id) /\ q.parent_couple_id.v = id}

\* the pointer of a reference to a person, if that person was parsed
IndiRef(ref) ==
  IF Truthy(ref) /\ ref.v \in Keys(people_by_id)
    THEN {PtrOf("I", ref.v, Keys(people_by_id))} ELSE {}

FamRef(ref) ==
  IF Truthy(ref) /\ ref.v \in Keys(couples_by_id)
    THEN {PtrOf("F", ref.v, Keys(couples_by_id))} ELSE {}

C2_PointerBijection ==
  pc = "done" =>
    LET P == Keys(people_by_id)
        F == Keys(couples_by_id)
        indi == RecordHeads("INDI")
        fam == RecordHeads("FAM")
    IN
    /\ Len(indi) = Cardinality(P)
    /\ Len(fam) = Cardinality(F)
    /\ \A id \in P : indi[Rank(id, P) + 1] = IndiHead(id)
    /\ \A id \in F : fam[Rank(id, F) + 1] = FamHead(id)
    /\ \A i, j \in DOMAIN indi : i # j => indi[i] # indi[j]
    /\ \A i, j \in DOMAIN fam : i # j => fam[i] # fam[j]
    /\ \A q \in Range(people_by_id) :
         LET body == RecordBody(IndiHead(q.id)) IN
         /\ Range(Refs(body, "FAMC")) = FamRef(q.parent_couple_id)
         /\ Range(Refs(body, "FAMS")) =
              {PtrOf("F", c.id, F) : c \in SpouseCouples(q.id)}
    /\ \A c \in Range(couples_by_id) :
         LET body == RecordBody(FamHead(c.id)) IN
         /\ Range(Refs(body, "HUSB")) = IndiRef(c.male_id)
         /\ Range(Refs(body, "WIFE")) = IndiRef(c.female_id)
         /\ Range(Refs(body, "CHIL")) =
              {PtrOf("I", q.id, P) : q \in Children(c.id)}

\* people 3 and 1 parsed in that order, person 3 a child of couple 2, which
\* names person 1: every kind of reference but WIFE occurs, and pointer
\* order differs from input order
C2_Witness ==
  /\ pc = "done"
  /\ Len(people_by_id) = 2
  /\ people_by_id[1].id > people_by_id[2].id
  /\ \E c \in Range(couples_by_id) :
       /\ IndiRef(c.male_id) # {}
       /\ Children(c.id) # {}
  /\ \E q \in Range(people_by_id) : SpouseCouples(q.id) # {}

-----------------------------------------------------------------------------
(* C3: a second conversion of the same record file yields the same GEDCOM  *)
(* text as the first one.                                                  *)

C3_ByteIdentical ==
  (pc = "done" /\ runs >= 2) => gedcom = prev_gedcom

\* the lines of the header record that carry the clock reading of to_json
HeadStamp(i) ==
  /\ \A j \in 2..i : OutLines[j][1] # "0"
  /\ OutLines[1] = <<"0", "HEAD">>
  /\ \/ OutLines[i] = <<"1", "DATE">> \o now.date
     \/ (OutLines[i] = <<"2", "TIME">> \o now.time
         /\ OutLines[i - 1] = <<"1", "DATE">> \o now.date)

(* C3, amended: a second conversion of the same record file yields a text  *)
(* of the same number of lines that differs from the first at most in the  *)
(* DATE line of the header record and in the TIME line under it, which     *)
(* carry the clock reading taken by to_json.                               *)
C3_IdenticalButStamp ==
  (pc = "done" /\ runs >= 2) =>
    /\ Len(gedcom) = Len(prev_gedcom)
    /\ \A i \in DOMAIN gedcom : gedcom[i] # prev_gedcom[i] => HeadStamp(i)

\* a second conversion, of a file with people and a couple, read the clock
\* on another day than the first
C3_Witness ==
  /\ pc = "done"
  /\ runs >= 2
  /\ gedcom # prev_gedcom
  /\ Len(people_by_id) = 2
  /\ Len(couples_by_id) = 1

-----------------------------------------------------------------------------
(* C4: whatever the order of the lines of the record file, build_indexes   *)
(* returns every children list in ascending order of person identifier and *)
(* every spouse-couples list in ascending order of couple identifier, and  *)
(* the CHIL and FAMS lines of the output follow that order.                *)

Ascending(seq) == \A i, j \in DOMAIN seq : i < j => seq[i] <= seq[j]

C4_AscendingIndexes ==
  pc = "done" =>
    LET idx == build_indexes(people_by_id, couples_by_id)
        P == Keys(people_by_id)
        F == Keys(couples_by_id)
    IN
    /\ \A c \in F : Ascending(idx.children_of_couple[c])
    /\ \A q \in P : Ascending(idx.couples_of_person[q])
    /\ \A c \in F :
         LET kids == Sorted({q.id : q \in Children(c)}) IN
         Refs(RecordBody(FamHead(c)), "CHIL") =
           [i \in DOMAIN kids |-> PtrOf("I", kids[i], P)]
    /\ \A q \in P :
         LET fams == Refs(RecordBody(IndiHead(q)), "FAMS") IN
         \A i, j \in DOMAIN fams :
           i < j => \E a, b \in F :
                      /\ a <= b
                      /\ fams[i] = PtrOf("F", a, F) /\ fams[j] = PtrOf("F", b, F)

-----------------------------------------------------------------------------
(* C5: dangling references raise nothing and leave no line: convert never  *)
(* ends by an exception, a couple whose male (female) participant was not  *)
(* parsed has a FAM record without HUSB (WIFE) line, and a person whose    *)
(* parent couple was not parsed has an INDI record without FAMC line.      *)

Dangling(ref, d) == Truthy(ref) /\ ref.v \notin Keys(d)

C5_DanglingOmitted ==
  /\ pc # "raised"
  /\ pc = "done" =>
       /\ Len(RecordHeads("FAM")) = Len(couples_by_id)
       /\ Len(RecordHeads("INDI")) = Len(people_by_id)
       /\ \A c \in Range(couples_by_id) :
            LET body == RecordBody(FamHead(c.id)) IN
            /\ Dangling(c.male_id, people_by_id) => Refs(body, "HUSB") = <<>>
            /\ Dangling(c.female_id, people_by_id) => Refs(body, "WIFE") = <<>>
       /\ \A q \in Range(people_by_id) :
            Dangling(q.parent_couple_id, couples_by_id)
              => Refs(RecordBody(IndiHead(q.id)), "FAMC") = <<>>

\* a couple whose male and female participants were both not parsed, beside
\* a person whose parent couple was not parsed
C5_Witness ==
  /\ pc = "done"
  /\ \E c \in Range(couples_by_id) :
       Dangling(c.male_id, people_by_id) /\ Dangling(c.female_id, people_by_id)
  /\ \E q \in Range(people_by_id) : Dangling(q.parent_couple_id, couples_by_id)

-----------------------------------------------------------------------------
(* C6: fmt_ged_date renders (1900, None, None) as "1900", (1900, 5, None)  *)
(* as "MAY 1900", (1900, 5, 3) as "3 MAY 1900" and nothing when the year   *)
(* is None; a month of 1..12 is rendered by its upper-case three-letter    *)
(* GEDCOM name.                                                            *)

GEDCOM_MONTHS ==
  <<"JAN", "FEB", "MAR", "APR", "MAY", "JUN",
    "JUL", "AUG", "SEP", "OCT", "NOV", "DEC">>

C6_DateRendering ==
  pc = "returned" =>
    /\ ~arg.y.some => ret = NoStr
    /\ arg = [y |-> Some(1900), m |-> None, d |-> None] => ret = <<"1900">>
    /\ arg = [y |-> Some(1900), m |-> Some(5), d |-> None]
         => ret = <<"MAY", "1900">>
    /\ arg = [y |-> Some(1900), m |-> Some(5), d |-> Some(3)]
         => ret = <<"3", "MAY", "1900">>
    /\ (arg.y.some /\ arg.m.some /\ arg.m.v \in 1..12)
         => (Len(ret) >= 2 /\ ret[Len(ret) - 1] = GEDCOM_MONTHS[arg.m.v])

-----------------------------------------------------------------------------
(* C7: the INDI record of a person has a death block if and only if the    *)
(* death marker is non-zero and the death year is known or the marker is   *)
(* 128.  With a known year the block is the line "1 DEAT" followed by a    *)
(* "2 DATE" line ending in the year; without one (so with all date         *)
(* components absent) it is the single line "1 DEAT Y", no DATE under it.  *)

DeathLines(body) ==
  {i \in DOMAIN body : Len(body[i]) >= 2 /\ body[i][1] = "1" /\ body[i][2] = "DEAT"}

C7_DeathBlock ==
  pc = "done" =>
    \A q \in Range(people_by_id) :
      LET body == RecordBody(IndiHead(q.id))
          deat == DeathLines(body)
          Child(i) == i < Len(body) /\ body[i + 1][1] = "2"
      IN
      /\ deat # {} <=> (q.death_event # 0
                        /\ (q.death_year.some \/ q.death_event = DeathKnown))
      /\ Cardinality(deat) <= 1
      /\ \A i \in deat :
           IF q.death_year.some
             THEN /\ body[i] = <<"1", "DEAT">>
                  /\ Child(i)
                  /\ body[i + 1][2] = "DATE"
                  /\ body[i + 1][Len(body[i + 1])] = ToString(q.death_year.v)
             ELSE /\ body[i] = <<"1", "DEAT", "Y">>
                  /\ ~Child(i)

\* a person with death marker 128 and no date component, whose record holds
\* the line "1 DEAT Y"
C7_Witness ==
  /\ pc = "done"
  /\ \E q \in Range(people_by_id) :
       /\ q.death_event = DeathKnown
       /\ ~q.death_year.some /\ ~q.death_month.some /\ ~q.death_day.some
       /\ \E i \in DOMAIN RecordBody(IndiHead(q.id)) :
            RecordBody(IndiHead(q.id))[i] = <<"1", "DEAT", "Y">>

-----------------------------------------------------------------------------
(* C8: for a document in which every pseudo-tag is the first key of a      *)
(* structure under a tag, json_to_gedcom returns, and its lines are those  *)
(* of a linearizer without patching: a pseudo-tag yields no line, and the  *)
(* line of a structure under tag t at level n is "n v t" when its first key *)
(* is _PDEF with value v, "n t v" when it is _PREF or _NAME, else "n t".   *)

IsPseudo(k) == k = "_PDEF" \/ k = "_PREF" \/ k = "_NAME"

\* every pseudo-tag is the first key of a dict that is not the root
RECURSIVE FirstKeyOnly(_, _)
FirstKeyOnly(node, root) ==
  \A i \in DOMAIN node.kv :
    /\ (node.t = "dict" /\ IsPseudo(node.kv[i].k)) => (i = 1 /\ ~root)
    /\ FirstKeyOnly(node.kv[i].v, FALSE)

\* the line of the structure d under tag at level
StructLine(level, tag, d) ==
  IF d.kv # <<>> /\ d.kv[1].k = "_PDEF"
    THEN <<ToString(level)>> \o d.kv[1].v.s \o <<tag>>
  ELSE IF d.kv # <<>> /\ d.kv[1].k \in {"_PREF", "_NAME"}
    THEN <<ToString(level), tag>> \o d.kv[1].v.s
  ELSE <<ToString(level), tag>>

RECURSIVE Flat(_)
Flat(seqs) == IF seqs = <<>> THEN <<>> ELSE Head(seqs) \o Flat(Tail(seqs))

RECURSIVE DirectLines(_, _)
DirectLines(d, level) ==
  LET Block(tag, x) == <<StructLine(level, tag, x)>> \o DirectLines(x, level + 1)
      OfEntry(e) ==
        IF IsPseudo(e.k) THEN <<>>
        ELSE IF e.v.t = "dict" THEN Block(e.k, e.v)
        ELSE IF e.v.t = "list" THEN
          Flat([j \in DOMAIN e.v.kv |->
                  IF e.v.kv[j].v.t = "dict" THEN Block(e.k, e.v.kv[j].v)
                  ELSE <<<<ToString(level), e.k>> \o e.v.kv[j].v.s>>])
        ELSE <<<<ToString(level), e.k>> \o e.v.s>>
  IN IF d.t = "dict" THEN Flat([i \in DOMAIN d.kv |-> OfEntry(d.kv[i])]) ELSE <<>>

C8_PseudoTagsPatch ==
  (pc = "returned" /\ FirstKeyOnly(arg, TRUE)) =>
    /\ ret.err = ""
    /\ ret.lines = DirectLines(arg, 0)
    /\ \A i \in DOMAIN ret.lines : \A j \in DOMAIN ret.lines[i] :
         ~IsPseudo(ret.lines[i][j])

\* the individual of the pointer-patch scenario: "0 @I0000@ INDI" is the
\* first line and "1 FAMC @F0002@" a later one
C8_Witness ==
  /\ pc = "returned"
  /\ FirstKeyOnly(arg, TRUE)
  /\ ret.lines # <<>>
  /\ ret.lines[1] = <<"0", "@I0000@", "INDI">>
  /\ \E i \in DOMAIN ret.lines : ret.lines[i] = <<"1", "FAMC", "@F0002@">>

-----------------------------------------------------------------------------
(* C9: the result of remove_empty_strings holds no empty-string value at   *)
(* any depth, neither under a dict key nor as an element of a list.        *)

RECURSIVE NoEmptyString(_)
NoEmptyString(node) ==
  \A i \in DOMAIN node.kv :
    node.kv[i].v # Str(EMPTY) /\ NoEmptyString(node.kv[i].v)

C9_NoEmptyStringLeft ==
  pc = "returned" => NoEmptyString(ret)

-----------------------------------------------------------------------------
(* C10: remove_empty_strings is idempotent: applied to its own result it   *)
(* returns that result.                                                    *)

C10_PruneIdempotent ==
  pc = "returned2" => ret2 = ret

\* a dict with two empty-string entries, both removed by the first call
C10_Witness ==
  /\ pc = "returned2"
  /\ arg.t = "dict"
  /\ Cardinality({i \in DOMAIN arg.kv : arg.kv[i].v = Str(EMPTY)}) = 2
  /\ ret = Dict(<<>>)

-----------------------------------------------------------------------------
(* C11: parse_node_ftt fails with a FormatError, returning no collections, *)
(* whenever the header line is missing (the text has no non-blank line) or *)
(* one of the header's first two cells does not parse as an integer (a     *)
(* header of fewer than two cells included).                               *)

NonBlankLines(txt) == SelectSeq(txt, LAMBDA ln : ~Blank(ln))

HeaderMissing(txt) == NonBlankLines(txt) = <<>>

HeaderUnreadable(txt) ==
  LET lines == NonBlankLines(txt) IN
  /\ lines # <<>>
  /\ \/ Len(lines[1]) < 2
     \/ ~IntOf(lines[1][1]).some
     \/ ~IntOf(lines[1][2]).some

C11_HeaderErrors ==
  (pc = "returned" /\ (HeaderMissing(arg) \/ HeaderUnreadable(arg))) =>
    ret.err = "FormatError"

-----------------------------------------------------------------------------
(* C12: when the header declares non-negative counts and fewer non-blank   *)
(* lines follow it than the two counts add up to, parse_node_ftt fails     *)
(* with a TruncatedInputError instead of returning collections built from  *)
(* the lines there are.                                                    *)

Truncated(txt) ==
  LET lines == NonBlankLines(txt) IN
  /\ ~HeaderMissing(txt) /\ ~HeaderUnreadable(txt)
  /\ IntOf(lines[1][1]).v >= 0 /\ IntOf(lines[1][2]).v >= 0
  /\ Len(lines) - 1 < IntOf(lines[1][1]).v + IntOf(lines[1][2]).v

-----------------------------------------------------------------------------
(* C13: when parse_node_ftt fails in convert (unreadable header, missing   *)
(* lines), convert ends with nothing written: neither the .json file nor   *)
(* the GEDCOM file was opened.  The .json file is written only once        *)
(* parse_node_ftt and to_json have returned, the GEDCOM file only after    *)
(* that and once json_to_gedcom has returned.                              *)

\* to_json has returned in this conversion: its document has a header
Built == DOCUMENT # Dict(<<>>)

C13_NothingWrittenOnParseFailure ==
  /\ (pc = "raised" /\ ~Built) => written = {}
  /\ (runs = 1 /\ "json" \in written) => (Built /\ pc \in {"built", "done", "raised"})
  /\ (runs = 1 /\ "ged" \in written) => ("json" \in written /\ pc = "done")

\* a record file with fewer lines than declared, and one with a header that
\* spells no count: convert has ended in the parser's exception
C13_Witness ==
  /\ pc = "raised"
  /\ ~Built
  /\ Truncated(text) \/ HeaderUnreadable(text)
  /\ written = {}

-----------------------------------------------------------------------------
(* C14: whatever the parsed collections (empty ones included), the text of *)
(* json_to_gedcom(to_json(...)) starts with the line "0 HEAD", its level-0 *)
(* lines are those of the header, the submitter, the individuals, the      *)
(* families and the trailer, in this order, and its last line is "0 TRLR"  *)
(* followed by exactly one newline.                                        *)

\* the tags of the level-0 lines, in output order
TopLevelTags ==
  LET zero == SelectSeq(OutLines, LAMBDA l : l[1] = "0") IN
  [i \in DOMAIN zero |-> zero[i][Len(zero[i])]]

C14_StreamFrame ==
  pc = "done" =>
    /\ Len(gedcom) >= 3
    /\ gedcom[1] = <<"0", "HEAD">>
    /\ TopLevelTags = <<"HEAD", "SUBM">>
                      \o [i \in DOMAIN people_by_id |-> "INDI"]
                      \o [i \in DOMAIN couples_by_id |-> "FAM"]
                      \o <<"TRLR">>
    /\ gedcom[Len(gedcom) - 1] = <<"0", "TRLR">>
    /\ gedcom[Len(gedcom)] = EMPTY

\* no person and no couple: header, submitter and trailer only
C14_Witness ==
  /\ pc = "done"
  /\ people_by_id = <<>> /\ couples_by_id = <<>>
  /\ TopLevelTags = <<"HEAD", "SUBM", "TRLR">>
  /\ gedcom[Len(gedcom)] = EMPTY

-----------------------------------------------------------------------------
(* C15: parse_node_ftt decodes the parent-couple cell of a person and the  *)
(* male and female cells of a couple as integers with zero as absent: a    *)
(* cell that spells no integer and a cell that spells 0 both give None,    *)
(* never the integer 0.                                                    *)

\* the integer-with-zero-as-absent contract
ZeroAsAbsent(cell) ==
  IF IntOf(cell).some /\ IntOf(cell).v # 0 THEN IntOf(cell) ELSE None

\* a record file of one person line and one couple line, both read
OnePersonOneCouple(txt) ==
  /\ Len(txt) = 3 /\ NonBlankLines(txt) = txt
  /\ txt[1] = Header(1, 1)

C15_ZeroIsAbsent ==
  (pc = "returned" /\ ret.err = "") =>
    /\ \A p \in Range(ret.people) : p.parent_couple_id # Some(0)
    /\ \A c \in Range(ret.couples) :
         c.male_id # Some(0) /\ c.female_id # Some(0)
    /\ OnePersonOneCouple(arg) =>
         /\ ret.people[1].parent_couple_id
              = ZeroAsAbsent(Pad(arg[2], 29, EMPTY)[3])
         /\ ret.couples[1].male_id = ZeroAsAbsent(Pad(arg[3], 12, <<"0">>)[3])
         /\ ret.couples[1].female_id = ZeroAsAbsent(Pad(arg[3], 12, <<"0">>)[5])

-----------------------------------------------------------------------------
(* C16: identifier 0 is the reserved "absent" sentinel: the people         *)
(* collection that parse_node_ftt returns never has an entry with          *)
(* identifier 0, also when the identifier cell of a person line is empty   *)
(* or spells no integer.                                                   *)

C16_NoPersonZero ==
  (pc = "returned" /\ ret.err = "") => 0 \notin Keys(ret.people)

-----------------------------------------------------------------------------
(* C17: the note of a person is decoded (trimmed, None when empty) from    *)
(* the cell right after the addition cell, column 26, and the two cells    *)
(* after it, columns 27 and 28, are kept as they are in tab_unk3 and       *)
(* tab_unk4.                                                               *)

\* a record file of one person line, read
OnePerson(txt) ==
  /\ Len(txt) = 2 /\ NonBlankLines(txt) = txt
  /\ txt[1] = Header(1, 0)

\* the cell of column col (counted from 0) of a person line
Column(line, col) == Pad(line, 29, EMPTY)[col + 1]

C17_NoteColumns ==
  (pc = "returned" /\ ret.err = "" /\ OnePerson(arg)) =>
    /\ ret.people[1].addition = OrNone(Strip(Column(arg[2], 25)))
    /\ ret.people[1].note = OrNone(Strip(Column(arg[2], 26)))
    /\ ret.people[1].tab_unk3 = Column(arg[2], 27)
    /\ ret.people[1].tab_unk4 = Column(arg[2], 28)

-----------------------------------------------------------------------------
(* C18: when two person lines, or two couple lines, carry one identifier,  *)
(* parse_node_ftt raises nothing and returns a collection with exactly one *)
(* entry for that identifier, all of whose fields come from the later      *)
(* line; the collection is then smaller than the declared count.           *)

\* the lines that the header of a readable record file declares as people
\* and as couples
DeclaredPeople(txt) == IntOf(NonBlankLines(txt)[1][1]).v
DeclaredCouples(txt) == IntOf(NonBlankLines(txt)[1][2]).v
PersonLines(txt) == SubSeq(NonBlankLines(txt), 2, 1 + DeclaredPeople(txt))
CoupleLines(txt) ==
  SubSeq(NonBlankLines(txt), 2 + DeclaredPeople(txt),
         1 + DeclaredPeople(txt) + DeclaredCouples(txt))

\* the identifier that a line spells
LineId(line) == to_int(line[1], TRUE, FALSE).v

\* the last of the lines ls that spells identifier id
LastOf(ls, id) ==
  ls[CHOOSE i \in DOMAIN ls :
       LineId(ls[i]) = id /\ \A j \in DOMAIN ls : LineId(ls[j]) = id => j <= i]

Repeated(ls) == \E i, j \in DOMAIN ls : i < j /\ LineId(ls[i]) = LineId(ls[j])

C18_LastWriteWins ==
  (pc = "returned" /\ ~HeaderMissing(arg) /\ ~HeaderUnreadable(arg)
     /\ DeclaredPeople(arg) >= 0 /\ DeclaredCouples(arg) >= 0
     /\ ~Truncated(arg)) =>
    LET pl == PersonLines(arg)
        cl == CoupleLines(arg)
    IN
    /\ ret.err = ""
    /\ Keys(ret.people) = {LineId(pl[i]) : i \in DOMAIN pl}
    /\ Len(ret.people) = Cardinality(Keys(ret.people))
    /\ \A p \in Range(ret.people) :
         p = Person_FTT(Pad(LastOf(pl, p.id), 29, EMPTY))
    /\ Repeated(pl) => Len(ret.people) < DeclaredPeople(arg)
    /\ Keys(ret.couples) = {LineId(cl[i]) : i \in DOMAIN cl}
    /\ Len(ret.couples) = Cardinality(Keys(ret.couples))
    /\ \A c \in Range(ret.couples) :
         c = Couple_FTT(Pad(LastOf(cl, c.id), 12, <<"0">>))
    /\ Repeated(cl) => Len(ret.couples) < DeclaredCouples(arg)

\* two person lines of identifier 1: the one person returned has the
\* surname of the second line
C18_Witness ==
  /\ pc = "returned"
  /\ arg = <<Header(2, 0), NumberedLine(1, 1), NumberedLine(1, 2)>>
  /\ Len(ret.people) = 1
  /\ ret.people[1].surname = <<"Doe", "2">>

-----------------------------------------------------------------------------
(* C19: json_to_gedcom fails, instead of patching and returning a text,    *)
(* when it meets a pseudo-tag (_PDEF, _PREF, _NAME) while no line has been *)
(* emitted, or while the last emitted line is not of the two-token shape   *)
(* "<level> <tag>", as when a valued line was emitted between the          *)
(* structure's line and the pseudo-tag.                                    *)

\* some pseudo-tag of the document is met out of place: as the first key of
\* the root (no line yet), or right after a key of the same dict that holds
\* a non-empty str (the last line is then "<level> <tag> <value>")
RECURSIVE OutOfPlace(_, _)
OutOfPlace(node, root) ==
  \E i \in DOMAIN node.kv :
    \/ /\ node.t = "dict" /\ IsPseudo(node.kv[i].k)
       /\ \/ root /\ i = 1
          \/ /\ i > 1
             /\ ~IsPseudo(node.kv[i - 1].k)
             /\ node.kv[i - 1].v.t = "str"
             /\ node.kv[i - 1].v.s # EMPTY
    \/ OutOfPlace(node.kv[i].v, FALSE)

C19_FailsLoudly ==
  (pc = "returned" /\ OutOfPlace(arg, TRUE)) => ret.err # ""

-----------------------------------------------------------------------------
(* C20: the INDI record of a person has a birth block, a "1 BIRT" line     *)
(* followed by a "2 DATE" line, if and only if the birth marker is         *)
(* non-zero and the birth year is known; a month or day without a year,    *)
(* and a date with a zero marker, give no BIRT line.                       *)

BirthLines(body) ==
  {i \in DOMAIN body : Len(body[i]) >= 2 /\ body[i][1] = "1" /\ body[i][2] = "BIRT"}

C20_BirthBlock ==
  pc = "done" =>
    \A q \in Range(people_by_id) :
      LET body == RecordBody(IndiHead(q.id))
          birt == BirthLines(body)
      IN
      /\ birt # {} <=> (q.birth_event # 0 /\ q.birth_year.some)
      /\ Cardinality(birt) <= 1
      /\ \A i \in birt :
           /\ body[i] = <<"1", "BIRT">>
           /\ i < Len(body)
           /\ body[i + 1][1] = "2" /\ body[i + 1][2] = "DATE"
           /\ body[i + 1][Len(body[i + 1])] = ToString(q.birth_year.v)

\* a person with a birth marker and a known year, month and day, whose
\* record holds "1 BIRT", beside the cases without a block
C20_Witness ==
  /\ pc = "done"
  /\ \E q \in Range(people_by_id) :
       /\ q.birth_event # 0
       /\ q.birth_year.some /\ q.birth_month.some /\ q.birth_day.some
       /\ BirthLines(RecordBody(IndiHead(q.id))) # {}

-----------------------------------------------------------------------------
(* C21: referential integrity of the output: every pointer that is the     *)
(* value of a FAMC, FAMS, HUSB, WIFE or CHIL line, and the pointer of the  *)
(* header's SUBM line, is defined by exactly one level-0 record of the     *)
(* same text, whatever was parsed: references that dangle and identifiers  *)
(* that are 0 included.                                                    *)

LinkTags == {"FAMC", "FAMS", "HUSB", "WIFE", "CHIL", "SUBM"}

\* the level-1 lines that refer to a record
LinkLines ==
  {i \in DOMAIN OutLines :
     /\ Len(OutLines[i]) >= 3
     /\ OutLines[i][1] = "1" /\ OutLines[i][2] \in LinkTags}

\* the level-0 lines that define pointer ptr
Definitions(ptr) ==
  {i \in DOMAIN OutLines :
     /\ Len(OutLines[i]) = 3
     /\ OutLines[i][1] = "0" /\ OutLines[i][2] = ptr}

C21_ReferentialIntegrity ==
  pc = "done" =>
    \A i \in LinkLines :
      /\ Len(OutLines[i]) = 3
      /\ Cardinality(Definitions(OutLines[i][3])) = 1

\* a person of identifier 0 beside a couple that names a person who was not
\* parsed, in a text that has CHIL and FAMS lines
C21_Witness ==
  /\ pc = "done"
  /\ 0 \in Keys(people_by_id)
  /\ \E c \in Range(couples_by_id) : Dangling(c.female_id, people_by_id)
  /\ \E i, j \in LinkLines : OutLines[i][2] = "CHIL" /\ OutLines[j][2] = "FAMS"

-----------------------------------------------------------------------------
(* C22: child and spouse links are symmetric in the text: family F has a   *)
(* CHIL line for individual P if and only if the record of P has a FAMC    *)
(* line for F, and F has a HUSB or WIFE line for P if and only if the      *)
(* record of P has a FAMS line for F.                                      *)

\* the pointers that the level-1 lines tagged tag of the record under head
\* carry
Links(head, tag) == Range(Refs(RecordBody(head), tag))

C22_SymmetricLinks ==
  pc = "done" =>
    \A F \in Range(RecordHeads("FAM")), P \in Range(RecordHeads("INDI")) :
      /\ <<P[2]>> \in Links(F, "CHIL") <=> <<F[2]>> \in Links(P, "FAMC")
      /\ <<P[2]>> \in (Links(F, "HUSB") \cup Links(F, "WIFE"))
           <=> <<F[2]>> \in Links(P, "FAMS")

\* a family with a wife and a child, both with their line back to it
C22_Witness ==
  /\ pc = "done"
  /\ \E F \in Range(RecordHeads("FAM")) :
       \E P, Q \in Range(RecordHeads("INDI")) :
         /\ <<P[2]>> \in Links(F, "WIFE") /\ <<F[2]>> \in Links(P, "FAMS")
         /\ <<Q[2]>> \in Links(F, "CHIL") /\ <<F[2]>> \in Links(Q, "FAMC")

-----------------------------------------------------------------------------
(* C23: no couple identifier occurs twice in the spouse-couples list that  *)
(* build_indexes gives a person, so no INDI record has two FAMS lines for  *)
(* one family, also when a couple names one person as its male and as its  *)
(* female participant.                                                     *)

NoRepeat(seq) == \A i, j \in DOMAIN seq : i # j => seq[i] # seq[j]

C23_SpouseListDistinct ==
  pc = "done" =>
    /\ \A id \in Keys(people_by_id) :
         NoRepeat(build_indexes(people_by_id, couples_by_id).couples_of_person[id])
    /\ \A P \in Range(RecordHeads("INDI")) :
         NoRepeat(Refs(RecordBody(P), "FAMS"))

-----------------------------------------------------------------------------
(* C24: in the lines that json_to_gedcom produces for a nested document    *)
(* the first line has level 0 and every later line has a level at most one *)
(* greater than that of the line before it; a patch by a pseudo-tag        *)
(* changes the level of no line.                                           *)

\* the numerals of the levels that a document of the model can reach
Levels == {ToString(n) : n \in 0..MaxNodes}

LevelOf(line) == CHOOSE n \in 0..MaxNodes : ToString(n) = line[1]

\* the document without its pseudo-tags
RECURSIVE Unpatched(_)
Unpatched(node) ==
  IF node.t = "str" THEN node
  ELSE LET kept == SelectSeq(node.kv, LAMBDA e : node.t = "list" \/ ~IsPseudo(e.k))
       IN [node EXCEPT !.kv = [i \in DOMAIN kept |->
                                 Entry(kept[i].k, Unpatched(kept[i].v))]]

C24_LevelSteps ==
  (pc = "returned" /\ ret.err = "") =>
    LET lines == ret.lines
        plain == json_to_gedcom(Unpatched(arg)).lines
    IN
    /\ \A i \in DOMAIN lines : lines[i][1] \in Levels
    /\ lines # <<>> => lines[1][1] = "0"
    /\ \A i \in DOMAIN lines :
         i > 1 => LevelOf(lines[i]) <= LevelOf(lines[i - 1]) + 1
    /\ Len(plain) = Len(lines)
    /\ \A i \in DOMAIN lines : plain[i][1] = lines[i][1]

\* the individual of the pointer-patch scenario: its patched lines at
\* levels 0 and 1, a line at level 2 under the second
C24_Witness ==
  /\ pc = "returned"
  /\ ret.err = ""
  /\ Len(ret.lines) = 4
  /\ ret.lines[1] = <<"0", "@I0000@", "INDI">>
  /\ ret.lines[3] = <<"1", "FAMC", "@F0002@">>
  /\ ret.lines[4] = <<"2", "PEDI", "BIRTH">>

-----------------------------------------------------------------------------
(* C25: whatever counts the header spells (zero and negative ones          *)
(* included), parse_node_ftt decodes as people only lines that follow the  *)
(* header and as couples only lines that follow the person lines; the      *)
(* header line is never decoded as a person or as a couple.                *)

C25_HeaderNeverDecoded ==
  (pc = "returned" /\ ~HeaderMissing(arg) /\ ~HeaderUnreadable(arg)
     /\ ret.err = "") =>
    LET lines == NonBlankLines(arg)
        n_people == IF DeclaredPeople(arg) > 0 THEN DeclaredPeople(arg) ELSE 0
    IN
    /\ \A p \in Range(ret.people) :
         /\ p # Person_FTT(Pad(lines[1], 29, EMPTY))
         /\ \E i \in 2..(1 + n_people) :
              i <= Len(lines) /\ p = Person_FTT(Pad(lines[i], 29, EMPTY))
    /\ \A c \in Range(ret.couples) :
         /\ c # Couple_FTT(Pad(lines[1], 12, <<"0">>))
         /\ \E i \in (2 + n_people)..Len(lines) :
              c = Couple_FTT(Pad(lines[i], 12, <<"0">>))

====
